---- MODULE Spec2Model ----
(***************************************************************************)
(* The data plane of the I/O kernel (iokernel/dpdk.c): the polling loop    *)
(* dpdk_loop, the packet dispatcher dpdk_rx_burst, the client registry     *)
(* (clients[], nr_clients, mac_to_proc) and the control command loop       *)
(* dpdk_rx_control_lrpcs, together with the parties that share memory with *)
(* it: the NIC receive ring, the control plane and the client runtimes.    *)
(***************************************************************************)
EXTENDS Integers, Sequences, FiniteSets, TLC

(***************************************************************************)
(* Program constants.                                                      *)
(***************************************************************************)
PKT_BURST_SIZE == 32
CONTROL_BURST_SIZE == 8
MAC_TO_PROC_ENTRIES == 128
\* width of rte_mbuf.refcnt (uint16_t)
RefcntMod == 65536

(***************************************************************************)
(* Bounds of the model.                                                    *)
(***************************************************************************)
\* size of the clients[] array (IOKERNEL_MAX_PROC, defined in defs.h)
IOKERNEL_MAX_PROC == 3
\* words of memory behind clients[] that an out-of-bounds append may reach
OobSlots == 1
\* number of mbufs in the pool (NUM_MBUFS, scaled down)
NumBufs == 2
\* mbufs on the free list when SpecRx and SpecBcast start (the others are
\* in use elsewhere and stay there)
RxFreeBufs == 1
\* descriptors of the NIC receive ring (RX_RING_SIZE, scaled down)
RxRingCap == 2
\* slots of each thread's ingress channel rxq
RxqCap == 1
\* slots of each control channel (CONTROL_DATAPLANE_QUEUE_SIZE)
CtlQueueCap == 1
\* references a client runtime holds before it releases one
HeldCap == 1
\* registry commands handled before the packets of SpecRx arrive
RegDepth == 2

(***************************************************************************)
(* Processes, threads, hardware addresses, buffers.                        *)
(***************************************************************************)
NULL == 0
Procs == {1, 2, 3}
Bufs == 1..NumBufs

MacA == 1
MacB == 2
MacMulti == 3
MacBcast == 4
Macs == {MacA, MacB, MacMulti, MacBcast}

\* p->mac : processes 1 and 2 were given the same hardware address
mac(p) == IF p = 3 THEN MacB ELSE MacA
\* p->thread_count
thread_count(p) == IF p = 1 THEN 2 ELSE 1
Threads(p) == 0..(thread_count(p) - 1)

is_unicast_ether_addr(a) == a \in {MacA, MacB}
\* (IsGroupAddr: a faulty variant that takes every group address for the
\* broadcast address)
IsGroupAddr(a) == a \in {MacMulti, MacBcast}
is_broadcast_ether_addr(a) == a = MacBcast

\* command kinds of the control channels
DATAPLANE_ADD_CLIENT == "ADD_CLIENT"
DATAPLANE_REMOVE_CLIENT == "REMOVE_CLIENT"
UNRECOGNIZED == "UNRECOGNIZED"
CONTROL_PLANE_REMOVE_CLIENT == "CLIENT_REMOVED"
RX_NET_RECV == "RECEIVE"
Cmds == {DATAPLANE_ADD_CLIENT, DATAPLANE_REMOVE_CLIENT, UNRECOGNIZED}

Min(a, b) == IF a < b THEN a ELSE b

VARIABLES
    clients,              \* clients[] : slots 1..nr_clients are in use (C index + 1)
    nr_clients,
    mac_to_proc,          \* the rte_hash : Macs -> Procs \cup {NULL}
    lrpc_control_to_data, \* inbound control channel, sequence of <<cmd, payload>>
    lrpc_data_to_control, \* outbound control channel, sequence of <<cmd, payload>>
    rxq,                  \* rxq[p][t] : ingress channel of thread t of process p
    held,                 \* held[p] : buffer references a client consumed, not yet released
    mbuf,                 \* mbuf[b] : [refcnt, dst, npre] of buffer b
    pool,                 \* the buffers on the mempool's free list
    nic_ring,             \* filled buffers waiting in the NIC receive queue
    pc,                   \* position of the polling thread
    bufs, nb_rx, i,       \* dpdk_rx_burst: burst array, its length, packet index
    j, n_sent,            \* dpdk_rx_burst: broadcast fan-out index and success count
    n_rx,                 \* dpdk_rx_control_lrpcs: commands handled in this call
    obs                   \* what the polling thread did in its last step

regvars == <<clients, nr_clients, mac_to_proc>>
chanvars == <<lrpc_control_to_data, lrpc_data_to_control>>
bufvars == <<mbuf, pool, nic_ring>>
rxvars == <<bufs, nb_rx, i, j, n_sent>>
vars == <<clients, nr_clients, mac_to_proc, lrpc_control_to_data,
          lrpc_data_to_control, rxq, held, mbuf, pool, nic_ring, pc,
          bufs, nb_rx, i, j, n_sent, n_rx, obs>>

(***************************************************************************)
(* The libraries the data plane calls.                                     *)
(***************************************************************************)
\* keys present in the hash table
Keys(h) == {a \in Macs : h[a] # NULL}

\* rte_hash_lookup_data: the data stored under a key, NULL when ret < 0
rte_hash_lookup_data(h, a) == h[a]

\* rte_hash_add_key_data: a present key gets its data replaced; a new key
\* is stored unless the table has no room for it (ok = FALSE, or all
\* MAC_TO_PROC_ENTRIES entries in use), and then ret < 0 and h is unchanged
rte_hash_add_key_data(h, a, p, ok) ==
    IF h[a] # NULL THEN [h EXCEPT ![a] = p]
    ELSE IF ok /\ Cardinality(Keys(h)) < MAC_TO_PROC_ENTRIES
         THEN [h EXCEPT ![a] = p]
         ELSE h

\* rte_hash_del_key: the key is removed, whatever process it mapped to
rte_hash_del_key(h, a) == [h EXCEPT ![a] = NULL]

\* lrpc_send: non-blocking, fails when the ring is full
lrpc_can_send(q, cap) == Len(q) < cap
lrpc_send(q, cap, msg) == IF lrpc_can_send(q, cap) THEN Append(q, msg) ELSE q

\* rte_mbuf_refcnt_update on a uint16_t counter
rte_mbuf_refcnt_update(m, b, v) ==
    [m EXCEPT ![b].refcnt = (@ + v) % RefcntMod]

\* rte_pktmbuf_free and a client's release: drop one reference; the buffer
\* goes back to the free list when the count reaches zero
\* (FreeMbufLeak: a faulty variant that forgets the free)
FreeMbufLeak(m, b) == m
FreeMbuf(m, b) == rte_mbuf_refcnt_update(m, b, -1)
FreePool(m, fl, b) == IF FreeMbuf(m, b)[b].refcnt = 0 THEN fl \cup {b} ELSE fl

\* rte_pktmbuf_prepend of one rx_net_hdr
dpdk_prepend_rx_preamble(m, b) == [m EXCEPT ![b].npre = @ + 1]

(***************************************************************************)
(* The registry: dpdk_add_client and dpdk_remove_client, as functions of   *)
(* the registry r = [clients, nr_clients, mac_to_proc].                    *)
(***************************************************************************)
EmptyReg == [clients |-> <<>>, nr_clients |-> 0,
             mac_to_proc |-> [a \in Macs |-> NULL]]

\* clients[nr_clients++] = p.  Inside the array the slot holds p.  Past the
\* end of the array the store is out of bounds: the word that is read back
\* from there later is some process reference q, p itself or another one.
AppendClient(cl, n, p, q) ==
    IF n < IOKERNEL_MAX_PROC THEN Append(cl, p) ELSE Append(cl, q)

\* (AddClientRollback: a faulty variant that undoes the append when the
\* insert has failed)
AddClientRollback(r, p, ok, q) ==
    IF rte_hash_add_key_data(r.mac_to_proc, mac(p), p, ok)[mac(p)] = NULL
    THEN r
    ELSE [clients |-> AppendClient(r.clients, r.nr_clients, p, q),
          nr_clients |-> r.nr_clients + 1,
          mac_to_proc |-> rte_hash_add_key_data(r.mac_to_proc, mac(p), p, ok)]
AddClient(r, p, ok, q) ==
    [clients |-> AppendClient(r.clients, r.nr_clients, p, q),
     nr_clients |-> r.nr_clients + 1,
     mac_to_proc |-> rte_hash_add_key_data(r.mac_to_proc, mac(p), p, ok)]

\* for (i = 0; i < nr_clients; i++) if (clients[i] == p) break;
\* the index of the first slot holding p, nr_clients + 1 when there is none
FindClient(cl, n, p) ==
    IF \E k \in 1..n : cl[k] = p
    THEN CHOOSE k \in 1..n : cl[k] = p /\ \A l \in 1..(k - 1) : cl[l] # p
    ELSE n + 1

\* the test i == nr_clients
Absent(r, p) == FindClient(r.clients, r.nr_clients, p) = r.nr_clients + 1

\* clients[i] = clients[nr_clients - 1]; nr_clients--
SwapRemove(cl, n, k) == SubSeq([cl EXCEPT ![k] = cl[n]], 1, n - 1)

RemoveClient(r, p) ==
    IF Absent(r, p) THEN r
    ELSE [clients |-> SwapRemove(r.clients, r.nr_clients,
                                 FindClient(r.clients, r.nr_clients, p)),
          nr_clients |-> r.nr_clients - 1,
          mac_to_proc |-> rte_hash_del_key(r.mac_to_proc, mac(p))]

\* what dpdk_add_client(p) can meet in registry r: whether the hash table
\* has room for a new key (one of oks), and the reference q an out-of-bounds
\* store leaves behind
AddOutcomes(r, p, oks) ==
    {o \in oks \X Procs : r.nr_clients < IOKERNEL_MAX_PROC => o[2] = p}

Reg == [clients |-> clients, nr_clients |-> nr_clients,
        mac_to_proc |-> mac_to_proc]

SetReg(r) ==
    /\ clients' = r.clients
    /\ nr_clients' = r.nr_clients
    /\ mac_to_proc' = r.mac_to_proc

dpdk_add_client(p, oks) ==
    /\ \E o \in AddOutcomes(Reg, p, oks) :
          SetReg(AddClient(Reg, p, o[1], o[2]))
    /\ UNCHANGED lrpc_data_to_control

\* (RemoveClientAlwaysNotify: a faulty variant that notifies the control
\* plane before it has looked for p)
RemoveClientAlwaysNotify(p) ==
    /\ SetReg(RemoveClient(Reg, p))
    /\ lrpc_data_to_control' =
           lrpc_send(lrpc_data_to_control, CtlQueueCap,
                     <<CONTROL_PLANE_REMOVE_CLIENT, p>>)
dpdk_remove_client(p) ==
    IF Absent(Reg, p)
    THEN UNCHANGED <<clients, nr_clients, mac_to_proc, lrpc_data_to_control>>
    ELSE /\ SetReg(RemoveClient(Reg, p))
         /\ lrpc_data_to_control' =
                lrpc_send(lrpc_data_to_control, CtlQueueCap,
                          <<CONTROL_PLANE_REMOVE_CLIENT, p>>)

(***************************************************************************)
(* Initial state: dpdk_init has run, dpdk_loop is about to start.          *)
(***************************************************************************)
NoObs == [op |-> "none", buf |-> 0, proc |-> 0, n |-> 0, frees |-> 0]

InitWith(fl) ==
    /\ lrpc_control_to_data = <<>>
    /\ lrpc_data_to_control = <<>>
    /\ rxq = [p \in Procs |-> [t \in Threads(p) |-> <<>>]]
    /\ held = [p \in Procs |-> [b \in Bufs |-> 0]]
    /\ mbuf = [b \in Bufs |-> [refcnt |-> 0, dst |-> NULL, npre |-> 0]]
    /\ pool = fl
    /\ nic_ring = <<>>
    /\ pc = "POLL_RX"
    /\ bufs = <<>>
    /\ nb_rx = 0
    /\ i = 0
    /\ j = 0
    /\ n_sent = 0
    /\ n_rx = 0
    /\ obs = NoObs

InitRest == InitWith(Bufs)

Init ==
    /\ clients = EmptyReg.clients
    /\ nr_clients = EmptyReg.nr_clients
    /\ mac_to_proc = EmptyReg.mac_to_proc
    /\ InitRest

(***************************************************************************)
(* dpdk_rx_control_lrpcs: one pass of                                      *)
(*   while (lrpc_recv(&lrpc_control_to_data, &cmd, &payload)               *)
(*          && n_rx < CONTROL_BURST_SIZE)                                  *)
(* per step.  lrpc_recv is evaluated first and removes the command it      *)
(* returns.  obs.n is the number of commands this call has removed so far.  *)
(***************************************************************************)
\* lrpc_recv finds the channel empty: the call returns
CtlReturnEmpty ==
    /\ pc = "POLL_CONTROL"
    /\ lrpc_control_to_data = <<>>
    /\ pc' = "POLL_RX"
    /\ n_rx' = 0
    /\ obs' = [NoObs EXCEPT !.op = "ctl_return", !.n = n_rx]
    /\ UNCHANGED <<regvars, chanvars, rxq, held, bufvars, rxvars>>

\* lrpc_recv returns a command and n_rx < CONTROL_BURST_SIZE: the body runs
\* (CtlCommandNoCount: a faulty variant that does not count an unrecognized
\* command)
CtlCommandNoCount(oks) ==
    /\ pc = "POLL_CONTROL"
    /\ lrpc_control_to_data # <<>>
    /\ n_rx < CONTROL_BURST_SIZE
    /\ LET cmd == Head(lrpc_control_to_data)[1]
           p == Head(lrpc_control_to_data)[2]
       IN  /\ lrpc_control_to_data' = Tail(lrpc_control_to_data)
           /\ IF cmd = DATAPLANE_ADD_CLIENT
              THEN /\ dpdk_add_client(p, oks)
                   /\ obs' = [NoObs EXCEPT !.op = "add", !.proc = p,
                                           !.n = n_rx + 1]
              ELSE IF cmd = DATAPLANE_REMOVE_CLIENT
              THEN /\ dpdk_remove_client(p)
                   /\ obs' = [NoObs EXCEPT
                                !.op = IF Absent(Reg, p)
                                       THEN "remove_absent" ELSE "remove",
                                !.proc = p, !.n = n_rx + 1]
              ELSE /\ UNCHANGED <<regvars, lrpc_data_to_control>>
                   /\ obs' = [NoObs EXCEPT !.op = "unrecognized",
                                           !.n = n_rx + 1]
    /\ n_rx' = IF Head(lrpc_control_to_data)[1] \in
                  {DATAPLANE_ADD_CLIENT, DATAPLANE_REMOVE_CLIENT}
               THEN n_rx + 1 ELSE n_rx
    /\ UNCHANGED <<pc, rxq, held, bufvars, rxvars>>
CtlCommand(oks) ==
    /\ pc = "POLL_CONTROL"
    /\ lrpc_control_to_data # <<>>
    /\ n_rx < CONTROL_BURST_SIZE
    /\ LET cmd == Head(lrpc_control_to_data)[1]
           p == Head(lrpc_control_to_data)[2]
       IN  /\ lrpc_control_to_data' = Tail(lrpc_control_to_data)
           /\ IF cmd = DATAPLANE_ADD_CLIENT
              THEN /\ dpdk_add_client(p, oks)
                   /\ obs' = [NoObs EXCEPT !.op = "add", !.proc = p,
                                           !.n = n_rx + 1]
              ELSE IF cmd = DATAPLANE_REMOVE_CLIENT
              THEN /\ dpdk_remove_client(p)
                   /\ obs' = [NoObs EXCEPT
                                !.op = IF Absent(Reg, p)
                                       THEN "remove_absent" ELSE "remove",
                                !.proc = p, !.n = n_rx + 1]
              ELSE /\ UNCHANGED <<regvars, lrpc_data_to_control>>
                   /\ obs' = [NoObs EXCEPT !.op = "unrecognized",
                                           !.n = n_rx + 1]
    /\ n_rx' = n_rx + 1
    /\ UNCHANGED <<pc, rxq, held, bufvars, rxvars>>

\* a command is handled; the hash table has room for a new key
CtlHandle == CtlCommand({TRUE})

\* ADD_CLIENT for an address that is no key yet is handled, and
\* rte_hash_add_key_data finds no room for it
CtlHandleNoRoom ==
    /\ lrpc_control_to_data # <<>>
    /\ Head(lrpc_control_to_data)[1] = DATAPLANE_ADD_CLIENT
    /\ mac_to_proc[mac(Head(lrpc_control_to_data)[2])] = NULL
    /\ CtlCommand({FALSE})

\* lrpc_recv returns a command but n_rx = CONTROL_BURST_SIZE: the loop ends
\* and the command that was just removed is not handled
CtlReturnFull ==
    /\ pc = "POLL_CONTROL"
    /\ lrpc_control_to_data # <<>>
    /\ ~(n_rx < CONTROL_BURST_SIZE)
    /\ lrpc_control_to_data' = Tail(lrpc_control_to_data)
    /\ pc' = "POLL_RX"
    /\ n_rx' = 0
    /\ obs' = [NoObs EXCEPT !.op = "ctl_return_full",
                            !.proc = Head(lrpc_control_to_data)[2],
                            !.n = n_rx + 1]
    /\ UNCHANGED <<regvars, lrpc_data_to_control, rxq, held, bufvars, rxvars>>

(***************************************************************************)
(* The control plane, at the other end of the two control channels.        *)
(***************************************************************************)
PendingAdds ==
    Cardinality({k \in 1..Len(lrpc_control_to_data) :
                    lrpc_control_to_data[k][1] = DATAPLANE_ADD_CLIENT})

\* the control plane sends one of the commands cmds for one of procs
CtrlSendOf(cmds, procs) ==
    /\ lrpc_can_send(lrpc_control_to_data, CtlQueueCap)
    /\ \E cmd \in cmds, p \in procs :
          /\ cmd = UNRECOGNIZED => p = 1
          /\ cmd = DATAPLANE_ADD_CLIENT =>
                nr_clients + PendingAdds < IOKERNEL_MAX_PROC + OobSlots
          /\ lrpc_control_to_data' =
                lrpc_send(lrpc_control_to_data, CtlQueueCap, <<cmd, p>>)
    /\ UNCHANGED <<regvars, lrpc_data_to_control, rxq, held, bufvars, pc,
                   rxvars, n_rx, obs>>

CtrlSend == CtrlSendOf(Cmds, Procs)

CtrlRecv ==
    /\ lrpc_data_to_control # <<>>
    /\ lrpc_data_to_control' = Tail(lrpc_data_to_control)
    /\ UNCHANGED <<regvars, lrpc_control_to_data, rxq, held, bufvars, pc,
                   rxvars, n_rx, obs>>

(***************************************************************************)
(* dpdk_rx_burst.                                                          *)
(***************************************************************************)
\* rte_eth_rx_burst(port, 0, bufs, PKT_BURST_SIZE)
RxBurst ==
    /\ pc = "POLL_RX"
    /\ LET nb == Min(Len(nic_ring), PKT_BURST_SIZE) IN
          /\ bufs' = SubSeq(nic_ring, 1, nb)
          /\ nic_ring' = SubSeq(nic_ring, nb + 1, Len(nic_ring))
          /\ nb_rx' = nb
          /\ pc' = IF nb = 0 THEN "POLL_CONTROL" ELSE "RX_PKT"
          /\ obs' = [NoObs EXCEPT !.op = "rx_burst", !.n = nb]
    /\ i' = 0
    /\ UNCHANGED <<regvars, chanvars, rxq, held, mbuf, pool, j, n_sent, n_rx>>

\* the packet of this iteration and its destination address
CurBuf == bufs[i + 1]
CurDst == mbuf[CurBuf].dst

\* i++ and the test i < nb_rx; the burst's locals are dead after the loop
\* (NextPacketReturn: a faulty variant that returns from the burst instead
\* of continuing with the next packet)
NextPacketReturn ==
    /\ i' = 0
    /\ pc' = "POLL_CONTROL"
    /\ bufs' = <<>>
    /\ nb_rx' = 0
NextPacket ==
    IF i + 1 < nb_rx
    THEN /\ i' = i + 1
         /\ pc' = "RX_PKT"
         /\ UNCHANGED <<bufs, nb_rx>>
    ELSE /\ i' = 0
         /\ pc' = "POLL_CONTROL"
         /\ bufs' = <<>>
         /\ nb_rx' = 0

\* dpdk_enqueue_to_runtime(net_hdr, p) with rand() % p->thread_count = t
\* (EnqueueAllThreads: a faulty variant that sends to every thread of p)
EnqueueAllThreads(q, b, p, t) ==
    [q EXCEPT ![p] = [u \in Threads(p) |->
                         lrpc_send(q[p][u], RxqCap, <<RX_NET_RECV, b>>)]]
dpdk_enqueue_to_runtime(q, b, p, t) ==
    [q EXCEPT ![p][t] = lrpc_send(@, RxqCap, <<RX_NET_RECV, b>>)]
EnqueueOk(q, p, t) == lrpc_can_send(q[p][t], RxqCap)

\* unicast destination without an entry in mac_to_proc
RxUnregistered ==
    /\ pc = "RX_PKT"
    /\ is_unicast_ether_addr(CurDst)
    /\ rte_hash_lookup_data(mac_to_proc, CurDst) = NULL
    /\ mbuf' = FreeMbuf(mbuf, CurBuf)
    /\ pool' = FreePool(mbuf, pool, CurBuf)
    /\ obs' = [NoObs EXCEPT !.op = "drop_unregistered", !.buf = CurBuf,
                            !.frees = 1]
    /\ NextPacket
    /\ UNCHANGED <<regvars, chanvars, rxq, held, nic_ring, j, n_sent, n_rx>>

\* unicast destination with an entry in mac_to_proc
RxUnicast ==
    /\ pc = "RX_PKT"
    /\ is_unicast_ether_addr(CurDst)
    /\ rte_hash_lookup_data(mac_to_proc, CurDst) # NULL
    /\ LET p == rte_hash_lookup_data(mac_to_proc, CurDst)
           m == dpdk_prepend_rx_preamble(mbuf, CurBuf)
       IN  \E t \in Threads(p) :
              IF EnqueueOk(rxq, p, t)
              THEN /\ rxq' = dpdk_enqueue_to_runtime(rxq, CurBuf, p, t)
                   /\ mbuf' = m
                   /\ pool' = pool
                   /\ obs' = [NoObs EXCEPT !.op = "unicast", !.buf = CurBuf,
                                           !.proc = p, !.n = 1]
              ELSE /\ rxq' = rxq
                   /\ mbuf' = FreeMbuf(m, CurBuf)
                   /\ pool' = FreePool(m, pool, CurBuf)
                   /\ obs' = [NoObs EXCEPT !.op = "drop_full", !.buf = CurBuf,
                                           !.proc = p, !.frees = 1]
    /\ NextPacket
    /\ UNCHANGED <<regvars, chanvars, held, nic_ring, j, n_sent, n_rx>>

\* broadcast destination and nr_clients > 0: the preamble, then the fan-out
RxBroadcast ==
    /\ pc = "RX_PKT"
    /\ ~is_unicast_ether_addr(CurDst)
    /\ is_broadcast_ether_addr(CurDst) /\ nr_clients > 0
    /\ mbuf' = dpdk_prepend_rx_preamble(mbuf, CurBuf)
    /\ n_sent' = 0
    /\ j' = 0
    /\ pc' = "RX_BCAST"
    /\ obs' = [NoObs EXCEPT !.op = "bcast_begin", !.buf = CurBuf]
    /\ UNCHANGED <<regvars, chanvars, rxq, held, pool, nic_ring, bufs, nb_rx,
                   i, n_rx>>

\* for (j = 0; j < nr_clients; j++): one dpdk_enqueue_to_runtime
RxBcastEnqueue ==
    /\ pc = "RX_BCAST"
    /\ j < nr_clients
    /\ LET p == clients[j + 1] IN
       \E t \in Threads(p) :
          /\ rxq' = dpdk_enqueue_to_runtime(rxq, CurBuf, p, t)
          /\ n_sent' = IF EnqueueOk(rxq, p, t) THEN n_sent + 1 ELSE n_sent
          /\ obs' = [NoObs EXCEPT !.op = IF EnqueueOk(rxq, p, t)
                                         THEN "bcast_enq" ELSE "bcast_full",
                                  !.buf = CurBuf, !.proc = p, !.n = n_sent']
    /\ j' = j + 1
    /\ UNCHANGED <<regvars, chanvars, held, bufvars, bufs, nb_rx, i, pc, n_rx>>

\* after the fan-out: free the buffer, or raise its count by n_sent - 1
\* (BcastAccountAll: a faulty variant that raises the count by n_sent)
BcastAccountAll(m, b, n) ==
    IF n = 0 THEN FreeMbuf(m, b) ELSE rte_mbuf_refcnt_update(m, b, n)
BcastAccount(m, b, n) ==
    IF n = 0 THEN FreeMbuf(m, b) ELSE rte_mbuf_refcnt_update(m, b, n - 1)

RxBcastFinish ==
    /\ pc = "RX_BCAST"
    /\ ~(j < nr_clients)
    /\ mbuf' = BcastAccount(mbuf, CurBuf, n_sent)
    /\ pool' = IF n_sent = 0 THEN FreePool(mbuf, pool, CurBuf) ELSE pool
    /\ obs' = [NoObs EXCEPT !.op = "bcast_done", !.buf = CurBuf, !.n = n_sent,
                            !.frees = IF n_sent = 0 THEN 1 ELSE 0]
    /\ j' = 0
    /\ n_sent' = 0
    /\ NextPacket
    /\ UNCHANGED <<regvars, chanvars, rxq, held, nic_ring, n_rx>>

\* neither unicast nor (broadcast with a client): dropped
RxUnhandled ==
    /\ pc = "RX_PKT"
    /\ ~is_unicast_ether_addr(CurDst)
    /\ ~(is_broadcast_ether_addr(CurDst) /\ nr_clients > 0)
    /\ mbuf' = FreeMbuf(mbuf, CurBuf)
    /\ pool' = FreePool(mbuf, pool, CurBuf)
    /\ obs' = [NoObs EXCEPT !.op = "drop_unhandled", !.buf = CurBuf,
                            !.frees = 1]
    /\ NextPacket
    /\ UNCHANGED <<regvars, chanvars, rxq, held, nic_ring, j, n_sent, n_rx>>

(***************************************************************************)
(* The NIC and the client runtimes, which share the buffer pool.           *)
(***************************************************************************)
\* a frame for dst arrives: the driver takes a buffer off the free list,
\* resets it (one reference, no preamble) and fills it
NicReceive ==
    /\ Len(nic_ring) < RxRingCap
    /\ \E b \in pool, dst \in Macs :
          /\ pool' = pool \ {b}
          /\ mbuf' = [mbuf EXCEPT ![b] = [refcnt |-> 1, dst |-> dst, npre |-> 0]]
          /\ nic_ring' = Append(nic_ring, b)
    /\ UNCHANGED <<regvars, chanvars, rxq, held, pc, rxvars, n_rx, obs>>

\* number of references client p holds, over buffers 1..n
RECURSIVE HeldCount(_, _)
HeldCount(p, n) == IF n = 0 THEN 0 ELSE held[p][n] + HeldCount(p, n - 1)

\* a thread of a client takes the message at the head of its rxq
ClientRecv ==
    \E p \in Procs : \E t \in Threads(p) :
       /\ rxq[p][t] # <<>>
       /\ HeldCount(p, NumBufs) < HeldCap
       /\ rxq' = [rxq EXCEPT ![p][t] = Tail(@)]
       /\ held' = [held EXCEPT ![p][Head(rxq[p][t])[2]] = @ + 1]
       /\ UNCHANGED <<regvars, chanvars, bufvars, pc, rxvars, n_rx, obs>>

\* a client releases one reference it holds
ClientRelease ==
    \E p \in Procs, b \in Bufs :
       /\ held[p][b] > 0
       /\ held' = [held EXCEPT ![p][b] = @ - 1]
       /\ mbuf' = FreeMbuf(mbuf, b)
       /\ pool' = FreePool(mbuf, pool, b)
       /\ UNCHANGED <<regvars, chanvars, rxq, nic_ring, pc, rxvars, n_rx, obs>>

(***************************************************************************)
(* dpdk_loop: for (;;) { dpdk_rx_burst(port); dpdk_rx_control_lrpcs(); }   *)
(***************************************************************************)
Next ==
    \/ RxBurst
    \/ RxUnregistered
    \/ RxUnicast
    \/ RxBroadcast
    \/ RxBcastEnqueue
    \/ RxBcastFinish
    \/ RxUnhandled
    \/ CtlReturnEmpty
    \/ CtlHandle
    \/ CtlHandleNoRoom
    \/ CtlReturnFull
    \/ CtrlSend
    \/ CtrlRecv
    \/ NicReceive
    \/ ClientRecv
    \/ ClientRelease

Spec == Init /\ [][Next]_vars

(***************************************************************************)
(* The control side alone: no frame arrives, so every dpdk_rx_burst is     *)
(* empty, the control plane sends commands at any moment, and the hash     *)
(* table always has room.                                                  *)
(***************************************************************************)
NextReg ==
    \/ RxBurst
    \/ CtlReturnEmpty
    \/ CtlHandle
    \/ CtlReturnFull
    \/ CtrlSend
    \/ CtrlRecv

SpecReg == Init /\ [][NextReg]_vars

(***************************************************************************)
(* The packet side alone: the registry is one that RegDepth commands or    *)
(* fewer leave behind, and no command arrives while packets are handled.   *)
(***************************************************************************)
RECURSIVE RegReach(_)
RegReach(k) ==
    IF k = 0 THEN {EmptyReg}
    ELSE LET R == RegReach(k - 1) IN
         R \cup UNION {{AddClient(r, p, o[1], o[2]) :
                           o \in AddOutcomes(r, p, BOOLEAN)} :
                          r \in {x \in R : x.nr_clients
                                    < IOKERNEL_MAX_PROC + OobSlots},
                          p \in Procs}
           \cup {RemoveClient(r, p) : r \in R, p \in Procs}

InitRx ==
    /\ \E r \in RegReach(RegDepth) :
          /\ clients = r.clients
          /\ nr_clients = r.nr_clients
          /\ mac_to_proc = r.mac_to_proc
    /\ InitWith(1..RxFreeBufs)

NextRx ==
    \/ RxBurst
    \/ RxUnregistered
    \/ RxUnicast
    \/ RxBroadcast
    \/ RxBcastEnqueue
    \/ RxBcastFinish
    \/ RxUnhandled
    \/ CtlReturnEmpty
    \/ NicReceive
    \/ ClientRecv
    \/ ClientRelease

SpecRx == InitRx /\ [][NextRx]_vars

(***************************************************************************)
(* The packet side with two registered processes: the registry is the one  *)
(* that ADD_CLIENT(1), ADD_CLIENT(2) leave behind.                         *)
(***************************************************************************)
TwoClients == AddClient(AddClient(EmptyReg, 1, TRUE, 1), 2, TRUE, 2)

InitBcast ==
    /\ clients = TwoClients.clients
    /\ nr_clients = TwoClients.nr_clients
    /\ mac_to_proc = TwoClients.mac_to_proc
    /\ InitWith(1..RxFreeBufs)

SpecBcast == InitBcast /\ [][NextRx]_vars

(***************************************************************************)
(* The polling loop with its error paths: two registered processes whose   *)
(* threads never drain their channels, a control plane that removes them   *)
(* (also when they are gone) or sends unrecognized commands and never      *)
(* reads the notifications, and frames of every class.  The polling thread *)
(* spins on its own core, so it always takes its next step.                *)
(***************************************************************************)
InitLoop ==
    /\ clients = TwoClients.clients
    /\ nr_clients = TwoClients.nr_clients
    /\ mac_to_proc = TwoClients.mac_to_proc
    /\ InitRest

CtrlSendLoop == CtrlSendOf({DATAPLANE_REMOVE_CLIENT, UNRECOGNIZED}, {1, 2})

\* the steps of the polling thread
Poll ==
    \/ RxBurst
    \/ RxUnregistered
    \/ RxUnicast
    \/ RxBroadcast
    \/ RxBcastEnqueue
    \/ RxBcastFinish
    \/ RxUnhandled
    \/ CtlReturnEmpty
    \/ CtlHandle
    \/ CtlReturnFull

NextLoop ==
    \/ Poll
    \/ CtrlSendLoop
    \/ NicReceive

SpecLoop == InitLoop /\ [][NextLoop]_vars /\ WF_vars(Poll)

(***************************************************************************)
(* Registration when the hash table may have no room: the control plane    *)
(* registers processes 1 and 3, each insert of a new key succeeds or       *)
(* fails, and frames of every class arrive.  With at most                  *)
(* IOKERNEL_MAX_PROC + OobSlots commands in all, no call of the command     *)
(* loop reaches CONTROL_BURST_SIZE.                                        *)
(***************************************************************************)
CtrlSendAdd == CtrlSendOf({DATAPLANE_ADD_CLIENT}, {1, 3})

NextGap ==
    \/ RxBurst
    \/ RxUnregistered
    \/ RxUnicast
    \/ RxBroadcast
    \/ RxBcastEnqueue
    \/ RxBcastFinish
    \/ RxUnhandled
    \/ CtlReturnEmpty
    \/ CtlHandle
    \/ CtlHandleNoRoom
    \/ CtrlSendAdd
    \/ NicReceive

SpecGap == Init /\ [][NextGap]_vars

(***************************************************************************)
(* Properties of the registry and of the command loop.                     *)
(***************************************************************************)
\* {p.address : p is in the Client Registry}
ClientMacs == {mac(clients[k]) : k \in 1..nr_clients}

\* the polling thread has just taken the step CtlHandle
Handled == pc = "POLL_CONTROL" /\ n_rx' = n_rx + 1

\* C1: after every add_client / remove_client the hardware addresses that
\* are keys of mac_to_proc are exactly the addresses of the processes in
\* clients[0 .. nr_clients - 1].
C1_LookupConsistency == Keys(mac_to_proc) = ClientMacs

\* C5: a call of dpdk_rx_control_lrpcs that has returned has removed at
\* most CONTROL_BURST_SIZE commands from the inbound channel.
C5_BoundedBatch ==
    obs.op \in {"ctl_return", "ctl_return_full"} => obs.n <= CONTROL_BURST_SIZE

\* C6: when the command loop handles REMOVE_CLIENT(p) directly after it has
\* handled REMOVE_CLIENT(p), the second call leaves clients, nr_clients and
\* mac_to_proc as the first call left them.
C6_RemoveTwice ==
    [][(/\ Handled
        /\ obs.op \in {"remove", "remove_absent"}
        /\ obs'.op \in {"remove", "remove_absent"}
        /\ obs'.proc = obs.proc)
       => UNCHANGED regvars]_vars

\* C10: the number of entries in use never exceeds the size of clients[].
C10_CapacityBound == nr_clients >= 0 /\ nr_clients <= IOKERNEL_MAX_PROC

\* the command the next pass of the command loop handles
HeadCmd == Head(lrpc_control_to_data)[1]
HeadArg == Head(lrpc_control_to_data)[2]
InClients(p) == \E k \in 1..nr_clients : clients[k] = p

\* C11: a REMOVE_CLIENT(p) that finds p in clients[] takes one slot and the
\* key of p out of the registries and appends exactly one CLIENT_REMOVED(p)
\* to the outbound channel when that has room; when the channel is full it
\* is left as it is and the registries are updated all the same; a
\* REMOVE_CLIENT(p) that does not find p changes neither the registries nor
\* the outbound channel.
C11_RemovalNotification ==
    [][(Handled /\ HeadCmd = DATAPLANE_REMOVE_CLIENT) =>
          IF InClients(HeadArg)
          THEN /\ nr_clients' = nr_clients - 1
               /\ mac_to_proc'[mac(HeadArg)] = NULL
               /\ lrpc_data_to_control' =
                     IF Len(lrpc_data_to_control) < CtlQueueCap
                     THEN Append(lrpc_data_to_control,
                                 <<CONTROL_PLANE_REMOVE_CLIENT, HeadArg>>)
                     ELSE lrpc_data_to_control
          ELSE UNCHANGED <<regvars, lrpc_data_to_control>>]_vars

\* a removal has taken effect although the outbound channel was full of
\* notifications for other processes
C11_Witness ==
    /\ obs.op = "remove"
    /\ ~InClients(obs.proc)
    /\ mac_to_proc[mac(obs.proc)] = NULL
    /\ Len(lrpc_data_to_control) = CtlQueueCap
    /\ \A k \in 1..Len(lrpc_data_to_control) :
          lrpc_data_to_control[k][2] # obs.proc

(***************************************************************************)
(* Properties of the packet dispatcher.                                    *)
(***************************************************************************)
\* references to buffer b that clients were handed and have not released:
\* the RECEIVE messages in the ingress channels and the references held
RECURSIVE QueueRefs(_, _, _)
QueueRefs(p, b, n) ==
    IF n = 0 THEN 0
    ELSE Cardinality({k \in 1..Len(rxq[p][n - 1]) : rxq[p][n - 1][k][2] = b})
         + QueueRefs(p, b, n - 1)

RECURSIVE OutstandingIn(_, _)
OutstandingIn(S, b) ==
    IF S = {} THEN 0
    ELSE LET p == CHOOSE x \in S : TRUE IN
         held[p][b] + QueueRefs(p, b, thread_count(p))
         + OutstandingIn(S \ {p}, b)

Outstanding(b) == OutstandingIn(Procs, b)

\* the polling thread takes a step of the packet loop / ends a fan-out
PktStep == pc = "RX_PKT" /\ (pc' # pc \/ i' # i)
BcastStep == pc = "RX_BCAST" /\ (pc' # pc \/ j' # j)
BcastDone == pc = "RX_BCAST" /\ pc' # pc

\* the step calls rte_pktmbuf_free on b exactly once
FreedOnce(b) ==
    /\ mbuf'[b].refcnt = (mbuf[b].refcnt - 1) % RefcntMod
    /\ pool' = IF mbuf'[b].refcnt = 0 THEN pool \cup {b} ELSE pool
    /\ obs'.frees = 1

\* the step does not free b
NotFreed(b) ==
    /\ mbuf'[b].refcnt = mbuf[b].refcnt
    /\ pool' = pool
    /\ obs'.frees = 0

C3_NoPrematureReclamation ==
    \A b \in Bufs :
       /\ b \in pool => Outstanding(b) = 0
       /\ mbuf[b].refcnt < RefcntMod \div 2

\* C8: each enqueue of a broadcast fan-out to a process with room puts one
\* RECEIVE message for the same buffer into one of its channels; the buffer
\* is not on the free list while a recipient still has its reference, and
\* it is on the free list once the last recipient has released it.
C8_BroadcastDelivery ==
    [][/\ (BcastStep /\ j < nr_clients
             /\ \A t \in Threads(clients[j + 1]) :
                   EnqueueOk(rxq, clients[j + 1], t)) =>
             \E t \in Threads(clients[j + 1]) :
                rxq' = [rxq EXCEPT ![clients[j + 1]][t] =
                            Append(@, <<RX_NET_RECV, CurBuf>>)]
       /\ \A b \in Bufs :
             /\ b \in pool' => Outstanding(b)' = 0
             /\ (/\ Outstanding(b) = 1 /\ Outstanding(b)' = 0
                 /\ pc \in {"POLL_RX", "POLL_CONTROL"}
                 /\ pc' = pc) => b \in pool']_vars

\* the destination has no entry in mac_to_proc / is a multicast address
Unregistered == is_unicast_ether_addr(CurDst)
                /\ rte_hash_lookup_data(mac_to_proc, CurDst) = NULL
Registered == is_unicast_ether_addr(CurDst)
              /\ rte_hash_lookup_data(mac_to_proc, CurDst) # NULL
Multicast == ~is_unicast_ether_addr(CurDst) /\ ~is_broadcast_ether_addr(CurDst)
Owner == rte_hash_lookup_data(mac_to_proc, CurDst)

\* C4: a unicast frame without registry entry, a unicast frame for which no
\* message is enqueued (the chosen channel is full; certainly when all the
\* owner's channels are full) and a multicast frame are each freed exactly
\* once by the dispatcher, and no ingress channel changes.
C4_NoSilentGrowth ==
    [][PktStep =>
          /\ (Unregistered \/ Multicast) => FreedOnce(CurBuf) /\ rxq' = rxq
          /\ (Registered /\ \A t \in Threads(Owner) : ~EnqueueOk(rxq, Owner, t))
                => rxq' = rxq
          /\ (Registered /\ rxq' = rxq) => FreedOnce(CurBuf)]_vars

C4_Witness ==
    /\ obs.op = "drop_full"
    /\ pc = "POLL_CONTROL"
    /\ obs.buf \in pool
    /\ thread_count(obs.proc) = 2
    /\ \E t \in Threads(obs.proc) : rxq[obs.proc][t] = <<>>

\* C7: a unicast frame whose address maps to process P, all of P's ingress
\* channels having room, puts exactly one RECEIVE message for the buffer
\* into exactly one channel of P, changes no other channel, and the
\* dispatcher does not free the buffer.
C7_UnicastDelivery ==
    [][(/\ PktStep
        /\ Registered
        /\ \A t \in Threads(Owner) : EnqueueOk(rxq, Owner, t))
       => /\ \E t \in Threads(Owner) :
                rxq' = [rxq EXCEPT ![Owner][t] =
                            Append(@, <<RX_NET_RECV, CurBuf>>)]
          /\ NotFreed(CurBuf)]_vars

C7_Witness ==
    /\ obs.op = "unicast"
    /\ pc = "POLL_CONTROL"
    /\ obs.proc = 1 /\ thread_count(1) = 2
    /\ rxq[1][0] = <<>> /\ rxq[1][1] = <<<<RX_NET_RECV, obs.buf>>>>
    /\ \A p \in Procs \ {1} : \A t \in Threads(p) : rxq[p][t] = <<>>
    /\ obs.buf \notin pool

\* C9: a buffer carries exactly one preamble whenever a RECEIVE message for
\* it is put into an ingress channel, the fan-out of a broadcast frame adds
\* no further preamble, and the dispatcher prepends none to a buffer it
\* drops as unregistered or unhandled.
C9_OnePreamble ==
    [][/\ \A b \in Bufs :
             Outstanding(b)' > Outstanding(b) => mbuf'[b].npre = 1
       /\ (PktStep /\ (Unregistered \/ (~is_unicast_ether_addr(CurDst)
                                        /\ pc' # "RX_BCAST"))) =>
             mbuf'[CurBuf].npre = mbuf[CurBuf].npre]_vars

\* C13: only a unicast frame is delivered by address; a broadcast frame
\* starts a fan-out exactly when nr_clients > 0, and the fan-out makes one
\* enqueue attempt for each of clients[0 .. nr_clients - 1] in turn and ends
\* after the last one; a broadcast frame that finds no client and every
\* multicast frame get no preamble, add no message to any channel and are
\* freed exactly once.
C13_Classification ==
    [][/\ PktStep =>
             /\ (pc' = "RX_BCAST") <=> (CurDst = MacBcast /\ nr_clients > 0)
             /\ pc' = "RX_BCAST" => (j' = 0 /\ n_sent' = 0 /\ rxq' = rxq)
             /\ CurDst \in {MacA, MacB} =>
                   \/ rxq' = rxq
                   \/ /\ mac_to_proc[CurDst] # NULL
                      /\ \E t \in Threads(mac_to_proc[CurDst]) :
                            rxq' = [rxq EXCEPT ![mac_to_proc[CurDst]][t] =
                                        Append(@, <<RX_NET_RECV, CurBuf>>)]
             /\ (CurDst = MacMulti \/ (CurDst = MacBcast /\ nr_clients = 0)) =>
                   /\ FreedOnce(CurBuf)
                   /\ rxq' = rxq
                   /\ mbuf'[CurBuf].npre = mbuf[CurBuf].npre
       /\ BcastStep =>
             IF j < nr_clients
             THEN /\ j' = j + 1 /\ pc' = pc
                  /\ \E t \in Threads(clients[j + 1]) :
                        rxq' = [rxq EXCEPT ![clients[j + 1]][t] =
                                   IF Len(@) < RxqCap
                                   THEN Append(@, <<RX_NET_RECV, CurBuf>>)
                                   ELSE @]
             ELSE rxq' = rxq]_vars

\* a broadcast frame was dropped as unhandled because no client is registered
C13_Witness ==
    /\ obs.op = "drop_unhandled"
    /\ nr_clients = 0
    /\ mbuf[obs.buf].dst = MacBcast
    /\ mbuf[obs.buf].npre = 0
    /\ obs.buf \in pool

\* p is in clients[] and its address is no key of mac_to_proc
InGap(p) == InClients(p) /\ mac_to_proc[mac(p)] = NULL

\* C14: an ADD_CLIENT(p) whose hash insert fails (the address of p is no
\* key before and none after) still appends p to clients[] and leaves
\* mac_to_proc as it was; while p is in clients[] without its address being
\* a key, a unicast frame for that address is dropped as unregistered
\* (freed once, nothing enqueued) and the fan-out of a broadcast frame still
\* makes its enqueue attempt for p.
C14_HashInsertFailureGap ==
    [][/\ (/\ Handled /\ HeadCmd = DATAPLANE_ADD_CLIENT
           /\ mac_to_proc[mac(HeadArg)] = NULL
           /\ mac_to_proc'[mac(HeadArg)] = NULL) =>
             /\ nr_clients' = nr_clients + 1
             /\ nr_clients < IOKERNEL_MAX_PROC => clients' = Append(clients, HeadArg)
             /\ mac_to_proc' = mac_to_proc
       /\ (PktStep /\ \E p \in Procs : InGap(p) /\ CurDst = mac(p)) =>
             /\ FreedOnce(CurBuf)
             /\ rxq' = rxq
             /\ obs'.op = "drop_unregistered"
       /\ (BcastStep /\ j < nr_clients /\ InGap(clients[j + 1])) =>
             \E t \in Threads(clients[j + 1]) :
                rxq' = [rxq EXCEPT ![clients[j + 1]][t] =
                           IF Len(@) < RxqCap
                           THEN Append(@, <<RX_NET_RECV, CurBuf>>)
                           ELSE @]]_vars

\* process 3, registered by an ADD_CLIENT whose insert failed, has been
\* sent a broadcast frame, and a unicast frame for its address was dropped
C14_Witness ==
    /\ clients = <<3>>
    /\ InGap(3)
    /\ obs.op = "drop_unregistered"
    /\ mbuf[obs.buf].dst = mac(3)
    /\ rxq[3][0] # <<>>
    /\ mbuf[rxq[3][0][1][2]].dst = MacBcast

\* number of slots 1..n of cl that hold q
Count(cl, n, q) == Cardinality({k \in 1..n : cl[k] = q})

\* C15: a REMOVE_CLIENT(p) that finds p takes exactly one entry, an entry
\* for p, out of clients[] and keeps all the others in some order; every
\* other process q in clients[] that lookup(q.address) returned before is
\* still returned by it afterwards.
C15_SwapRemoveFrame ==
    [][(Handled /\ HeadCmd = DATAPLANE_REMOVE_CLIENT /\ InClients(HeadArg)) =>
          /\ nr_clients' = nr_clients - 1
          /\ \A q \in Procs :
                Count(clients', nr_clients', q) =
                   Count(clients, nr_clients, q) - (IF q = HeadArg THEN 1 ELSE 0)
          /\ \A q \in Procs \ {HeadArg} :
                (InClients(q) /\ rte_hash_lookup_data(mac_to_proc, mac(q)) = q)
                   => rte_hash_lookup_data(mac_to_proc', mac(q)) = q]_vars

\* the command loop removes the command at the head of the inbound channel
CtlPop ==
    /\ pc = "POLL_CONTROL"
    /\ lrpc_control_to_data # <<>>
    /\ lrpc_control_to_data' = Tail(lrpc_control_to_data)

\* C16: handling a command that is neither ADD_CLIENT nor REMOVE_CLIENT
\* changes neither clients[], nr_clients, mac_to_proc nor the outbound
\* channel, counts as one of the CONTROL_BURST_SIZE commands of the call and
\* does not end the call; the command that follows it within the limit is
\* dispatched as usual.
C16_UnrecognizedCommand ==
    [][/\ (CtlPop /\ n_rx < CONTROL_BURST_SIZE
             /\ HeadCmd \notin {DATAPLANE_ADD_CLIENT, DATAPLANE_REMOVE_CLIENT}) =>
             /\ UNCHANGED <<regvars, lrpc_data_to_control>>
             /\ n_rx' = n_rx + 1
             /\ pc' = "POLL_CONTROL"
       /\ (CtlPop /\ n_rx < CONTROL_BURST_SIZE /\ obs.op = "unrecognized") =>
             /\ n_rx' = n_rx + 1
             /\ HeadCmd = DATAPLANE_ADD_CLIENT => nr_clients' = nr_clients + 1
             /\ (HeadCmd = DATAPLANE_REMOVE_CLIENT /\ InClients(HeadArg)) =>
                   nr_clients' = nr_clients - 1]_vars

\* an unrecognized command has been skipped, the registry is as it was,
\* and the same call is about to dispatch the ADD_CLIENT that follows it
C16_Witness ==
    /\ pc = "POLL_CONTROL"
    /\ obs.op = "unrecognized"
    /\ obs.n = n_rx /\ n_rx >= 1 /\ n_rx < CONTROL_BURST_SIZE
    /\ nr_clients > 0
    /\ lrpc_control_to_data # <<>>
    /\ HeadCmd = DATAPLANE_ADD_CLIENT

\* C17: every ADD_CLIENT or REMOVE_CLIENT the command loop removes from the
\* inbound channel is dispatched, none is removed and then discarded: an
\* ADD_CLIENT adds an entry to clients[], a REMOVE_CLIENT(p) with p in
\* clients[] removes one.
C17_NoCommandLost ==
    [][CtlPop =>
          /\ HeadCmd = DATAPLANE_ADD_CLIENT => nr_clients' = nr_clients + 1
          /\ (HeadCmd = DATAPLANE_REMOVE_CLIENT /\ InClients(HeadArg)) =>
                nr_clients' = nr_clients - 1]_vars

\* C18: when the handling of REMOVE_CLIENT(p) has put CLIENT_REMOVED(p) on
\* the outbound channel, no slot of clients[0 .. nr_clients - 1] holds p and
\* no key of mac_to_proc maps to p.
C18_NoUseAfterRemoval ==
    [][(/\ Handled /\ HeadCmd = DATAPLANE_REMOVE_CLIENT
        /\ lrpc_data_to_control' =
              Append(lrpc_data_to_control,
                     <<CONTROL_PLANE_REMOVE_CLIENT, HeadArg>>))
       => /\ \A k \in 1..nr_clients' : clients'[k] # HeadArg
          /\ \A a \in Macs : mac_to_proc'[a] # HeadArg]_vars

\* where a buffer is: in the NIC receive ring; with the dispatcher, as the
\* current or a later packet of the burst; with clients
InRing(b) == \E k \in 1..Len(nic_ring) : nic_ring[k] = b
WithDispatcher(b) ==
    /\ pc \in {"RX_PKT", "RX_BCAST"}
    /\ \E k \in (i + 1)..nb_rx : bufs[k] = b
WithClients(b) == Outstanding(b) > 0

\* C19: between the dispatches of two frames, each buffer that was on the
\* free list at the start is in exactly one of the conditions free, in the
\* receive ring, with the dispatcher, with clients; the reference count of
\* a buffer that is with clients is the number of references handed out and
\* not yet released; and the dispatcher holds no buffer outside a burst.
C19_BufferConservation ==
    /\ pc # "RX_BCAST" =>
          \A b \in 1..RxFreeBufs :
             /\ Cardinality({c \in {"free", "ring", "dispatcher", "clients"} :
                               \/ c = "free" /\ b \in pool
                               \/ c = "ring" /\ InRing(b)
                               \/ c = "dispatcher" /\ WithDispatcher(b)
                               \/ c = "clients" /\ WithClients(b)}) = 1
             /\ WithClients(b) => mbuf[b].refcnt = Outstanding(b)
    /\ pc \in {"POLL_RX", "POLL_CONTROL"} => bufs = <<>>

(***************************************************************************)
(* Properties of the polling loop.                                         *)
(***************************************************************************)
\* the positions of the polling thread inside dpdk_rx_burst
InRx == pc \in {"POLL_RX", "RX_PKT", "RX_BCAST"}

\* C12: the loop starts with dpdk_rx_burst; dpdk_rx_burst is always followed
\* by dpdk_rx_control_lrpcs and that by dpdk_rx_burst; a burst is left only
\* after its last packet, and the step that ends a packet which is not the
\* last one moves on to the next packet of the same burst, whether the
\* packet was delivered or dropped; whatever errors occur, the polling
\* thread reaches POLL_CONTROL and POLL_RX again and again.
C12_LoopOrderAndProgress ==
    /\ pc = "POLL_RX"
    /\ [][/\ InRx => (InRx' \/ pc' = "POLL_CONTROL")
          /\ pc = "POLL_CONTROL" => pc' \in {"POLL_CONTROL", "POLL_RX"}
          /\ pc' = "POLL_RX" => pc \in {"POLL_CONTROL", "POLL_RX"}
          /\ (InRx /\ pc' = "POLL_CONTROL") =>
                (nb_rx' = 0 /\ (pc = "POLL_RX" \/ i + 1 = nb_rx))
          /\ (((PktStep /\ pc' # "RX_BCAST") \/ BcastDone) /\ i + 1 < nb_rx) =>
                (pc' = "RX_PKT" /\ i' = i + 1 /\ bufs' = bufs
                   /\ nb_rx' = nb_rx)]_vars
    /\ []<>(pc = "POLL_RX")
    /\ []<>(pc = "POLL_CONTROL")

\* the first packet of a burst of two was dropped and the second is next
C12_Witness ==
    /\ pc = "RX_PKT"
    /\ nb_rx = 2 /\ i = 1
    /\ obs.op \in {"drop_unregistered", "drop_full", "drop_unhandled"}
    /\ obs.buf = bufs[1]

====
